---- MODULE Spec2Model ----
(***************************************************************************)
(* Model of charybdis.Api (src/charybdis/charybdis.py): the Hi-Rez API     *)
(* wrapper with its rate-limit ledger (_last), lazily created session      *)
(* token (_session_id) and the synchronous / asynchronous call paths.      *)
(*                                                                         *)
(* Optional values (Python None) are sequences: None == <<>>, a present    *)
(* value v is <<v>>.  Time is counted in ticks, TicksPerSecond to a second.*)
(* A task is one caller: a coroutine of the single event loop when         *)
(* mode = "loop" (it runs until it awaits; `running` is the task that owns *)
(* the thread), a preemptively scheduled thread when mode = "threads".     *)
(***************************************************************************)
EXTENDS Integers, Sequences, FiniteSets, TLC

\* ---------------------------------------------------------------- bounds
NTasks == 2
MaxOps == 2
MaxClock == 2
MaxArgs == 2
MaxLife == 4
D == 1
TicksPerSecond == 2

Tasks == 1..NTasks

None == <<>>
Some(v) == <<v>>

\* configuration of the client under study
DevId == "dev"
AuthKey == "key"
Delays == {None, Some(D)}
\* the calls the callers make: <<wrapper, method_name, args>>
Calls == { <<"raw", "getgods", <<"1">> >>, <<"dict", "getgods", <<"1">> >>,
           <<"list", "getgods", <<"1">> >>, <<"raw", "createsession", <<>> >> }
ClientStates == {"none", "open", "closed"}

\* ------------------------------------------------------------ pure parts
Pad2(n) == IF n < 10 THEN "0" \o ToString(n) ELSE ToString(n)

\* now.strftime("%Y%m%d%H%M%S"), the clock counted from 2024-01-01 00:00:00
Timestamp(now) ==
    LET s == now \div TicksPerSecond
    IN  "20240101" \o Pad2((s \div 3600) % 24) \o Pad2((s \div 60) % 60) \o Pad2(s % 60)

\* hashlib.md5(...).hexdigest(): an injective image of the hashed string
Md5(s) == "md5(" \o s \o ")"

\* CreateSignature hashing the secret before the method name
CreateSignatureKeyFirst(method_name, timestamp) ==
    Md5(DevId \o AuthKey \o method_name \o timestamp)

\* _create_signature (211-214)
CreateSignature(method_name, timestamp) ==
    Md5(DevId \o method_name \o AuthKey \o timestamp)

\* CreateUrl adding the session segment whenever a token is cached
CreateUrlWhenCached(sid, now, method_name, args) ==
    LET timestamp == Timestamp(now)
        signature == CreateSignature(method_name, timestamp)
    IN  <<method_name \o "json", DevId, signature>>
        \o (IF sid /= None THEN <<sid[1]>> ELSE <<>>)
        \o <<timestamp>>
        \o args

\* the path of _create_url as its "/"-separated segments
CreateUrl(sid, now, method_name, args) ==
    LET timestamp == Timestamp(now)
        signature == CreateSignature(method_name, timestamp)
    IN  <<method_name \o "json", DevId, signature>>
        \o (IF method_name /= "createsession" THEN <<sid[1]>> ELSE <<>>)
        \o <<timestamp>>
        \o args

PingUrl == <<"pingjson">>

\* Immediate with the delay left out of the comparison
ImmediateNoDelay(l, d, now) == l = None \/ l[1] <= now

\* Immediate with a strict comparison
ImmediateStrict(l, d, now) == l = None \/ l[1] + d[1] < now

\* line 191: the ledger is absent or the delay has elapsed
Immediate(l, d, now) == l = None \/ l[1] + d[1] <= now

\* line 195: self._last += self.delay
Advance(l, d) == Some(l[1] + d[1])

\* line 196-197: to_sleep = self._last - now
ToSleep(l, now) == Some(l[1] - now)

\* _update_last (187-197) as one step: the new ledger and the wait returned
UpdateLast(l, d, now) ==
    IF d = None THEN [last |-> l, wait |-> None]
    ELSE IF Immediate(l, d, now) THEN [last |-> Some(now), wait |-> None]
    ELSE [last |-> Advance(l, d), wait |-> ToSleep(Advance(l, d), now)]

\* line 204: the assertion of _create_url fails
AssertFails(sid, method_name) == method_name /= "createsession" /\ sid = None

\* _fetch (96-101): the exception raised before a request is sent, "" if
\* none (httpx.get when there is no client; a closed client refuses)
FetchError(c) == IF c = "closed" THEN "RuntimeError" ELSE ""

\* _afetch falling back to a one-off request, as _fetch does
AFetchErrorFallback(ac) == IF ac = "closed" THEN "RuntimeError" ELSE ""

\* _afetch (105-113): the exception raised before a request is sent
AFetchError(ac) ==
    IF ac = "none" THEN "NotImplementedError"
    ELSE IF ac = "closed" THEN "RuntimeError" ELSE ""

\* raise_for_status left out
RaisesNever(r) == FALSE

\* lines 102 / 114: resp.raise_for_status() raises
Raises(r) == r.status = "err"

\* the session id the server hands out in answer to request number n: a fresh
\* one per createsession request
Token(n) == "s" \o ToString(n)

\* the outcome of the wrappers _confirm_is_dict / _confirm_is_list (135-145)
Confirm(w, kind) ==
    IF w = "raw" \/ w = kind THEN "ok" ELSE "RuntimeError"

\* ------------------------------------------------------------------ state
VARIABLES
    mode,        \* "loop": one thread running an event loop; "threads"; "twin"
    delay,       \* Api.delay
    client,      \* Api.client: "none", "open" or "closed"
    aclient,     \* Api.aclient
    session_id,  \* Api._session_id
    last,        \* Api._last
    clock,       \* what datetime.now reads
    running,     \* loop mode: the task that owns the thread, 0 if none
    task,        \* per task: position and locals of the operation in progress
    nops,        \* operations started so far
    requests,    \* history: the HTTP requests sent, in order
    sched,       \* history: one record per return of _update_last
    done,        \* history: one record per finished public operation
    twin,        \* twin mode: two clients driven by the same inputs
    url,         \* url mode: the last call of _create_url and what it built
    ctx          \* life mode: the with-blocks of the caller that are open

vars == <<mode, delay, client, aclient, session_id, last, clock, running,
          task, nops, requests, sched, done, twin, url, ctx>>

Idle == [pc |-> "idle", op |-> "none", opid |-> 0, async |-> FALSE, wrap |-> "raw",
         method |-> "", args |-> <<>>, cur |-> "", phase |-> "own",
         now |-> 0, old |-> None, rd |-> None, wait |-> None, wake |-> 0,
         sent |-> 0, req |-> 0, sid0 |-> None]

\* an Api object as the twin mode keeps it: its two fields and what it did
\* no call of _create_url made yet
NoUrl == [sid |-> None, now |-> 0, method |-> "", args |-> <<>>, result |-> "none",
          path |-> <<>>]

FreshApi == [session_id |-> None, last |-> None, paths |-> <<>>, waits |-> <<>>,
             results |-> <<>>]

InitCommon ==
    /\ delay \in Delays
    /\ session_id = None
    /\ last = None
    /\ clock = 0
    /\ running = 0
    /\ task = [t \in Tasks |-> Idle]
    /\ nops = 0
    /\ requests = <<>>
    /\ sched = <<>>
    /\ done = <<>>
    /\ twin = [s |-> FreshApi, a |-> FreshApi]
    /\ url = NoUrl
    /\ ctx = [sync |-> FALSE, async |-> FALSE]

\* a client constructed with or without the aclient parameter
Init == mode = "loop" /\ InitCommon /\ client = "none" /\ aclient \in {"none", "open"}

InitThreads == mode = "threads" /\ InitCommon /\ client = "none" /\ aclient = "none"

\* ---------------------------------------------------------- scheduling
\* task t may execute a step: threads always, a coroutine only when the
\* thread is free or already its own
Runs(t) == mode = "threads" \/ running \in {0, t}

Hold(t) == IF mode = "loop" THEN t ELSE 0

\* create_session awaited like the rest of an asynchronous call
BlockingSyncOnly(t) == ~task[t].async

\* the _call_method in progress is the blocking one: create_session always
\* is (160 calls the synchronous create_session)
Blocking(t) == ~task[t].async \/ task[t].phase = "cs"

\* callers are interchangeable: of the idle ones the lowest starts next;
\* each thread makes one call; the life mode has a single caller
CanStart(t) ==
    /\ task[t].pc = "idle" /\ Runs(t)
    /\ IF mode = "loop"
       THEN nops < MaxOps /\ \A u \in Tasks : u < t => task[u].pc /= "idle"
       ELSE IF mode = "life" THEN t = 1 /\ nops < MaxLife
       ELSE t = nops + 1

\* task t enters a public operation with the locals rec
Begin(t, rec) ==
    /\ task' = [task EXCEPT ![t] = [rec EXCEPT !.opid = nops + 1, !.sid0 = session_id]]
    /\ nops' = nops + 1
    /\ running' = Hold(t)
    /\ UNCHANGED <<url, ctx, twin, mode, delay, client, aclient, session_id, last, clock, requests, sched, done>>

\* the operation of task t ends with result res; sid is the token it leaves
Finish(t, res, sid) ==
    /\ task' = [task EXCEPT ![t] = Idle]
    /\ done' = Append(done, [task |-> t, op |-> task[t].op, opid |-> task[t].opid,
                             async |-> task[t].async, wrap |-> task[t].wrap,
                             method |-> task[t].method, result |-> res,
                             sent |-> task[t].sent, sid0 |-> task[t].sid0, sid1 |-> sid])
    /\ running' = 0

\* ------------------------------------------------------- public operations
\* Ping going through the rate limiter like any other method
PingLimited(t, a) ==
    /\ CanStart(t)
    /\ Begin(t, [Idle EXCEPT !.pc = "now", !.op = "ping", !.async = a, !.cur = "ping"])

\* ping (85-90) / aping (92-94): straight to _fetch / _afetch
Ping(t, a) ==
    /\ CanStart(t)
    /\ Begin(t, [Idle EXCEPT !.pc = "url", !.op = "ping", !.async = a, !.cur = "ping"])

\* call_method / acall_method and their _dict / _list wrappers (117-161)
CallMethod(t, a, c) ==
    /\ CanStart(t)
    /\ Begin(t, [Idle EXCEPT !.pc = "check", !.op = "call_method", !.async = a,
                             !.wrap = c[1], !.method = c[2], !.args = c[3]])

\* create_session called directly (163-171)
CreateSession(t) ==
    /\ CanStart(t)
    /\ Begin(t, [Idle EXCEPT !.pc = "now", !.op = "create_session",
                             !.cur = "createsession", !.phase = "cs"])

\* Check creating a session on every call
CheckAlways(t) ==
    /\ task[t].pc = "check" /\ Runs(t)
    /\ task' = [task EXCEPT ![t] = [@ EXCEPT !.pc = "now", !.cur = "createsession", !.phase = "cs"]]
    /\ running' = Hold(t)
    /\ UNCHANGED <<url, ctx, twin, mode, delay, client, aclient, session_id, last, clock, nops, requests, sched, done>>

\* Check never creating a session
CheckNever(t) ==
    /\ task[t].pc = "check" /\ Runs(t)
    /\ task' = [task EXCEPT ![t] = [@ EXCEPT !.pc = "now", !.cur = task[t].method, !.phase = "own"]]
    /\ running' = Hold(t)
    /\ UNCHANGED <<url, ctx, twin, mode, delay, client, aclient, session_id, last, clock, nops, requests, sched, done>>

\* Check behind a lock that create_session holds until it returns
CheckSerialised(t) ==
    /\ task[t].pc = "check" /\ Runs(t)
    /\ \A u \in Tasks \ {t} : task[u].phase /= "cs"
    /\ task' = [task EXCEPT ![t] =
                  IF session_id = None
                  THEN [@ EXCEPT !.pc = "now", !.cur = "createsession", !.phase = "cs"]
                  ELSE [@ EXCEPT !.pc = "now", !.cur = task[t].method, !.phase = "own"]]
    /\ running' = Hold(t)
    /\ UNCHANGED <<url, ctx, twin, mode, delay, client, aclient, session_id, last, clock, nops, requests, sched, done>>

\* lines 153-154 / 159-160: if self._session_id is None: self.create_session()
Check(t) ==
    /\ task[t].pc = "check" /\ Runs(t)
    /\ task' = [task EXCEPT ![t] =
                  IF session_id = None
                  THEN [@ EXCEPT !.pc = "now", !.cur = "createsession", !.phase = "cs"]
                  ELSE [@ EXCEPT !.pc = "now", !.cur = task[t].method, !.phase = "own"]]
    /\ running' = Hold(t)
    /\ UNCHANGED <<url, ctx, twin, mode, delay, client, aclient, session_id, last, clock, nops, requests, sched, done>>

\* lines 174 / 181: now = datetime.datetime.now(datetime.timezone.utc)
ReadNow(t) ==
    /\ task[t].pc = "now" /\ Runs(t)
    /\ task' = [task EXCEPT ![t] = [@ EXCEPT !.pc = "cond", !.now = clock]]
    /\ running' = Hold(t)
    /\ UNCHANGED <<url, ctx, twin, mode, delay, client, aclient, session_id, last, clock, nops, requests, sched, done>>

\* what one return of _update_last did: the ledger it found (old), the clock
\* reading it was given, the ledger it stored (wrote), the ledger as it stands
\* at the return (new) and the wait returned
SchedRec(t, old, wrote, new, w) ==
    [task |-> t, opid |-> task[t].opid, phase |-> task[t].phase, async |-> ~Blocking(t),
     old |-> old, now |-> task[t].now, wrote |-> wrote, new |-> new, wait |-> w]

\* Cond writing the ledger although rate limiting is off
CondLedgerAlways(t) ==
    /\ task[t].pc = "cond" /\ Runs(t)
    /\ running' = Hold(t)
    /\ IF delay = None
       THEN /\ task' = [task EXCEPT ![t] = [@ EXCEPT !.pc = "url", !.old = last, !.wait = None]]
            /\ sched' = Append(sched, SchedRec(t, last, Some(task[t].now), Some(task[t].now), None))
            /\ last' = Some(task[t].now)
       ELSE /\ task' = [task EXCEPT ![t] = [@ EXCEPT !.old = last,
                           !.pc = IF Immediate(last, delay, task[t].now) THEN "wfast" ELSE "rslow"]]
            /\ sched' = sched
            /\ last' = last
    /\ UNCHANGED <<url, ctx, twin, mode, delay, client, aclient, session_id, clock, nops, requests, done>>

\* lines 188-191: the two tests of _update_last
Cond(t) ==
    /\ task[t].pc = "cond" /\ Runs(t)
    /\ running' = Hold(t)
    /\ IF delay = None
       THEN /\ task' = [task EXCEPT ![t] = [@ EXCEPT !.pc = "url", !.old = last, !.wait = None]]
            /\ sched' = Append(sched, SchedRec(t, last, None, last, None))
       ELSE /\ task' = [task EXCEPT ![t] = [@ EXCEPT !.old = last,
                           !.pc = IF Immediate(last, delay, task[t].now) THEN "wfast" ELSE "rslow"]]
            /\ sched' = sched
    /\ UNCHANGED <<url, ctx, twin, mode, delay, client, aclient, session_id, last, clock, nops, requests, done>>

\* lines 192-193: self._last = now; return None
WFast(t) ==
    /\ task[t].pc = "wfast" /\ Runs(t)
    /\ last' = Some(task[t].now)
    /\ task' = [task EXCEPT ![t] = [@ EXCEPT !.pc = "url", !.wait = None]]
    /\ sched' = Append(sched, SchedRec(t, task[t].old, last', last', None))
    /\ running' = Hold(t)
    /\ UNCHANGED <<url, ctx, twin, mode, delay, client, aclient, session_id, clock, nops, requests, done>>

\* line 195, the read of self._last in self._last += self.delay
RSlow(t) ==
    /\ task[t].pc = "rslow" /\ Runs(t)
    /\ task' = [task EXCEPT ![t] = [@ EXCEPT !.pc = "wslow", !.rd = last]]
    /\ running' = Hold(t)
    /\ UNCHANGED <<url, ctx, twin, mode, delay, client, aclient, session_id, last, clock, nops, requests, sched, done>>

\* line 195, the store of self._last += self.delay
WSlow(t) ==
    /\ task[t].pc = "wslow" /\ Runs(t)
    /\ last' = Advance(task[t].rd, delay)
    /\ task' = [task EXCEPT ![t] = [@ EXCEPT !.pc = "fin"]]
    /\ running' = Hold(t)
    /\ UNCHANGED <<url, ctx, twin, mode, delay, client, aclient, session_id, clock, nops, requests, sched, done>>

\* lines 196-197 and 175-176 / 182-183: the wait is computed from the ledger
\* as it stands, then time.sleep or await asyncio.sleep begins
Fin(t) ==
    /\ task[t].pc = "fin" /\ Runs(t)
    /\ LET w == ToSleep(last, task[t].now)
       IN  /\ task' = [task EXCEPT ![t] = [@ EXCEPT !.pc = "sleep", !.wait = w, !.wake = clock + w[1]]]
           /\ sched' = Append(sched, SchedRec(t, task[t].old, Advance(task[t].rd, delay), last, w))
    /\ running' = IF Blocking(t) THEN Hold(t) ELSE 0
    /\ UNCHANGED <<url, ctx, twin, mode, delay, client, aclient, session_id, last, clock, nops, requests, done>>

\* Wake returning at once, no time having passed
WakeAtOnce(t) ==
    /\ task[t].pc = "sleep" /\ Runs(t)
    /\ task' = [task EXCEPT ![t] = [@ EXCEPT !.pc = "url"]]
    /\ running' = Hold(t)
    /\ UNCHANGED <<url, ctx, twin, mode, delay, client, aclient, session_id, last, clock, nops, requests, sched, done>>

\* the sleep is over: at least the wait has passed since it began
Wake(t) ==
    /\ task[t].pc = "sleep" /\ Runs(t)
    /\ clock' = IF clock < task[t].wake THEN task[t].wake ELSE clock
    /\ task' = [task EXCEPT ![t] = [@ EXCEPT !.pc = "url"]]
    /\ running' = Hold(t)
    /\ UNCHANGED <<url, ctx, twin, mode, delay, client, aclient, session_id, last, nops, requests, sched, done>>

\* UrlOf with the clock read again when the path is built
UrlOfSendTime(t) ==
    IF task[t].op = "ping" THEN PingUrl
    ELSE CreateUrl(session_id, clock, task[t].cur,
                   IF task[t].phase = "cs" THEN <<>> ELSE task[t].args)

\* the path the operation requests
UrlOf(t) ==
    IF task[t].op = "ping" THEN PingUrl
    ELSE CreateUrl(session_id, task[t].now, task[t].cur,
                   IF task[t].phase = "cs" THEN <<>> ELSE task[t].args)

\* the exception _fetch / _afetch raises for task t before sending, "" if none
TransportError(t) ==
    IF Blocking(t) THEN FetchError(client) ELSE AFetchError(aclient)

\* lines 177-178 / 184-185 with _fetch (96-101) / _afetch (105-113), up to
\* the moment the GET is on the wire
Send(t) ==
    /\ task[t].pc = "url" /\ Runs(t)
    /\ UNCHANGED <<url, ctx, twin, mode, delay, client, aclient, session_id, last, clock, nops, sched>>
    /\ IF task[t].op /= "ping" /\ AssertFails(session_id, task[t].cur)
       THEN Finish(t, "AssertionError", session_id) /\ requests' = requests
       ELSE IF TransportError(t) /= ""
       THEN Finish(t, TransportError(t), session_id) /\ requests' = requests
       ELSE /\ requests' = Append(requests,
                    [task |-> t, op |-> task[t].op, opid |-> task[t].opid,
                     async |-> task[t].async, phase |-> task[t].phase,
                     method |-> task[t].cur, path |-> UrlOf(t),
                     args |-> IF task[t].phase = "cs" THEN <<>> ELSE task[t].args,
                     via |-> IF Blocking(t) THEN "sync" ELSE "async",
                     at |-> clock, now |-> task[t].now, wait |-> task[t].wait,
                     sid |-> session_id, outcome |-> "pending"])
            /\ task' = [task EXCEPT ![t] = [@ EXCEPT !.pc = "resp", !.sent = @ + 1,
                                                      !.req = Len(requests) + 1]]
            /\ running' = IF Blocking(t) THEN Hold(t) ELSE 0
            /\ done' = done

\* what the server may answer to task t: an error status, or a body (text for
\* ping, an object carrying session_id for createsession, an object or an
\* array for the other methods)
Responses(t) ==
    {[status |-> "err", kind |-> "none"]}
    \cup (IF task[t].op = "ping" THEN {[status |-> "ok", kind |-> "text"]}
          ELSE IF task[t].cur = "createsession" THEN {[status |-> "ok", kind |-> "dict"]}
          ELSE {[status |-> "ok", kind |-> k] : k \in {"dict", "list"}})

\* the response arrives: raise_for_status (102 / 114), .text / .json(), the
\* assignment of line 171, the return through the wrappers
Recv(t, r) ==
    /\ task[t].pc = "resp" /\ Runs(t)
    /\ requests' = [requests EXCEPT ![task[t].req].outcome = r.status]
    /\ UNCHANGED <<url, ctx, twin, mode, delay, client, aclient, last, clock, nops, sched>>
    /\ IF Raises(r)
       THEN Finish(t, "HTTPStatusError", session_id) /\ session_id' = session_id
       ELSE IF task[t].op = "ping"
       THEN Finish(t, "ok", session_id) /\ session_id' = session_id
       ELSE IF task[t].phase = "cs"
       THEN /\ session_id' = Some(Token(task[t].req))
            /\ IF task[t].op = "create_session"
               THEN Finish(t, "ok", session_id')
               ELSE /\ task' = [task EXCEPT ![t] = [@ EXCEPT !.pc = "now", !.cur = task[t].method,
                                                              !.phase = "own"]]
                    /\ running' = Hold(t)
                    /\ done' = done
       ELSE Finish(t, Confirm(task[t].wrap, r.kind), session_id) /\ session_id' = session_id

\* the response to the request of task t, whatever the server answers
Receive(t) == \E r \in Responses(t) : Recv(t, r)

\* ------------------------------------------------------------------ time
\* one tick passes.  Time is only advanced where a task can tell: before a
\* clock reading (a sleep advances the clock itself when it ends)
Tick ==
    /\ \E t \in Tasks : Runs(t) /\ task[t].pc = "now"
    /\ clock < MaxClock
    /\ clock' = clock + 1
    /\ UNCHANGED <<url, ctx, twin, mode, delay, client, aclient, session_id, last, running, task, nops, requests, sched, done>>

Next ==
    \/ \E t \in Tasks, a \in BOOLEAN : Ping(t, a)
    \/ \E t \in Tasks, a \in BOOLEAN, c \in Calls : CallMethod(t, a, c)
    \/ \E t \in Tasks : CreateSession(t)
    \/ \E t \in Tasks : Check(t)
    \/ \E t \in Tasks : ReadNow(t)
    \/ \E t \in Tasks : Cond(t)
    \/ \E t \in Tasks : WFast(t)
    \/ \E t \in Tasks : RSlow(t)
    \/ \E t \in Tasks : WSlow(t)
    \/ \E t \in Tasks : Fin(t)
    \/ \E t \in Tasks : Wake(t)
    \/ \E t \in Tasks : Send(t)
    \/ \E t \in Tasks : Receive(t)
    \/ Tick

\* one event loop: coroutines calling the synchronous and asynchronous forms
Spec == Init /\ [][Next]_vars

\* threads calling the synchronous call_method of one client
ThreadCalls == { <<"raw", "getgods", <<"1">> >> }

NextThreads ==
    \/ \E t \in Tasks, c \in ThreadCalls : CallMethod(t, FALSE, c)
    \/ \E t \in Tasks : Check(t)
    \/ \E t \in Tasks : ReadNow(t)
    \/ \E t \in Tasks : Cond(t)
    \/ \E t \in Tasks : WFast(t)
    \/ \E t \in Tasks : RSlow(t)
    \/ \E t \in Tasks : WSlow(t)
    \/ \E t \in Tasks : Fin(t)
    \/ \E t \in Tasks : Wake(t)
    \/ \E t \in Tasks : Send(t)
    \/ \E t \in Tasks : Receive(t)
    \/ Tick

SpecThreads == InitThreads /\ [][NextThreads]_vars


\* ------------------------------------------------- the two forms, side by side
\* The synchronous and the asynchronous form of each operation, run to
\* completion on an Api object o = [session_id, last, paths, waits, results]
\* from the clock readings and the server responses handed to it.
Outcome(o, exc, val) == [api |-> o, exc |-> exc, val |-> val]

Returned(o, res) == [o EXCEPT !.results = Append(@, res)]

\* _call_method (173-178)
CallMethodInner(o, method_name, args, now, r) ==
    LET u == UpdateLast(o.last, delay, now)
        o1 == [o EXCEPT !.last = u.last, !.waits = Append(@, u.wait)]
        o2 == [o1 EXCEPT !.paths = Append(@, CreateUrl(o.session_id, now, method_name, args))]
    IN  IF AssertFails(o.session_id, method_name) THEN Outcome(o1, "AssertionError", "none")
        ELSE IF FetchError(client) /= "" THEN Outcome(o1, FetchError(client), "none")
        ELSE IF Raises(r) THEN Outcome(o2, "HTTPStatusError", "none")
        ELSE Outcome(o2, "", r.kind)

\* _acall_method building the path without consulting the ledger
ACallMethodInnerNoLedger(o, method_name, args, now, r) ==
    LET o2 == [o EXCEPT !.paths = Append(@, CreateUrl(o.session_id, now, method_name, args))]
    IN  IF AssertFails(o.session_id, method_name) THEN Outcome(o, "AssertionError", "none")
        ELSE IF AFetchError(aclient) /= "" THEN Outcome(o, AFetchError(aclient), "none")
        ELSE IF Raises(r) THEN Outcome(o2, "HTTPStatusError", "none")
        ELSE Outcome(o2, "", r.kind)

\* _acall_method (180-185)
ACallMethodInner(o, method_name, args, now, r) ==
    LET u == UpdateLast(o.last, delay, now)
        o1 == [o EXCEPT !.last = u.last, !.waits = Append(@, u.wait)]
        o2 == [o1 EXCEPT !.paths = Append(@, CreateUrl(o.session_id, now, method_name, args))]
    IN  IF AssertFails(o.session_id, method_name) THEN Outcome(o1, "AssertionError", "none")
        ELSE IF AFetchError(aclient) /= "" THEN Outcome(o1, AFetchError(aclient), "none")
        ELSE IF Raises(r) THEN Outcome(o2, "HTTPStatusError", "none")
        ELSE Outcome(o2, "", r.kind)

\* create_session (163-171); tok is the session_id of the response body
CreateSessionOn(o, now, r, tok) ==
    LET c == CallMethodInner(o, "createsession", <<>>, now, r)
    IN  IF c.exc /= "" THEN c
        ELSE Outcome([c.api EXCEPT !.session_id = Some(tok)], "", "none")

\* call_method (147-155) through the wrapper w (117-123)
CallMethodOn(o, w, method_name, args, nows, rs, tok) ==
    LET c == IF o.session_id = None THEN CreateSessionOn(o, nows[1], rs[1], tok)
             ELSE Outcome(o, "", "none")
        k == CallMethodInner(c.api, method_name, args, nows[2], rs[2])
    IN  IF c.exc /= "" THEN Returned(c.api, c.exc)
        ELSE IF k.exc /= "" THEN Returned(k.api, k.exc)
        ELSE Returned(k.api, Confirm(w, k.val))

\* acall_method (157-161) through the wrapper w (125-133)
ACallMethodOn(o, w, method_name, args, nows, rs, tok) ==
    LET c == IF o.session_id = None THEN CreateSessionOn(o, nows[1], rs[1], tok)
             ELSE Outcome(o, "", "none")
        k == ACallMethodInner(c.api, method_name, args, nows[2], rs[2])
    IN  IF c.exc /= "" THEN Returned(c.api, c.exc)
        ELSE IF k.exc /= "" THEN Returned(k.api, k.exc)
        ELSE Returned(k.api, Confirm(w, k.val))

\* ping (85-90)
PingOn(o, r) ==
    IF FetchError(client) /= "" THEN Returned(o, FetchError(client))
    ELSE Returned([o EXCEPT !.paths = Append(@, PingUrl)],
                  IF Raises(r) THEN "HTTPStatusError" ELSE "ok")

\* aping (92-94)
APingOn(o, r) ==
    IF AFetchError(aclient) /= "" THEN Returned(o, AFetchError(aclient))
    ELSE Returned([o EXCEPT !.paths = Append(@, PingUrl)],
                  IF Raises(r) THEN "HTTPStatusError" ELSE "ok")

Statuses == {[status |-> "ok", kind |-> "dict"], [status |-> "err", kind |-> "none"]}

Bodies == {[status |-> "ok", kind |-> "dict"], [status |-> "ok", kind |-> "list"],
           [status |-> "err", kind |-> "none"]}

\* any client the program can hold: the sync and async HTTP clients absent,
\* open, or closed by a context manager that was left
InitTwin ==
    /\ mode = "twin" /\ InitCommon
    /\ client \in ClientStates /\ aclient \in ClientStates

\* ping on the one client, aping on the other, the same response to both
TwinPing ==
    /\ mode = "twin" /\ nops < MaxOps
    /\ \E r \in Statuses :
          twin' = [s |-> PingOn(twin.s, r), a |-> APingOn(twin.a, r)]
    /\ nops' = nops + 1
    /\ UNCHANGED <<url, ctx, mode, delay, client, aclient, session_id, last, clock, running, task, requests, sched, done>>

\* call_method on the one client, acall_method on the other: the same call,
\* the same clock readings and the same responses to both
TwinCall ==
    /\ mode = "twin" /\ nops < MaxOps
    /\ \E c \in Calls, n1 \in 0..MaxClock, n2 \in 0..MaxClock, r1 \in Statuses, r2 \in Bodies :
          /\ n1 <= n2
          /\ twin' = [s |-> CallMethodOn(twin.s, c[1], c[2], c[3], <<n1, n2>>, <<r1, r2>>, Token(nops + 1)),
                      a |-> ACallMethodOn(twin.a, c[1], c[2], c[3], <<n1, n2>>, <<r1, r2>>, Token(nops + 1))]
    /\ nops' = nops + 1
    /\ UNCHANGED <<url, ctx, mode, delay, client, aclient, session_id, last, clock, running, task, requests, sched, done>>

NextTwin == TwinPing \/ TwinCall

\* the same operations in their two forms on two clients configured alike
SpecTwin == InitTwin /\ [][NextTwin]_vars

\* ------------------------------------------------------ context managers
\* a client constructed with or without the client / aclient parameters,
\* rate limiting off (the ledger plays no part in the life of the clients)
InitLife ==
    /\ mode = "life" /\ InitCommon /\ delay = None
    /\ client \in {"none", "open"} /\ aclient \in {"none", "open"}

\* a context-manager method run by the caller t, ending in res
LifeOp(t, op, a, res) ==
    /\ CanStart(t)
    /\ done' = Append(done, [task |-> t, op |-> op, opid |-> nops + 1, async |-> a,
                             wrap |-> "raw", method |-> "", result |-> res, sent |-> 0,
                             sid0 |-> session_id, sid1 |-> session_id])
    /\ nops' = nops + 1
    /\ UNCHANGED <<url, twin, mode, delay, session_id, last, clock, running, task,
                   requests, sched>>

\* __enter__ (47-54): `with api:` begins
Enter(t) ==
    /\ LifeOp(t, "enter", FALSE, IF client /= "none" THEN "ValueError" ELSE "ok")
    /\ client' = IF client /= "none" THEN client ELSE "open"
    /\ ctx' = IF client /= "none" THEN ctx ELSE [ctx EXCEPT !.sync = TRUE]
    /\ aclient' = aclient

\* Exit dropping the reference to the client it closed
ExitForgets(t) ==
    /\ ctx.sync
    /\ LifeOp(t, "exit", FALSE, IF client = "none" THEN "AssertionError" ELSE "ok")
    /\ client' = "none"
    /\ ctx' = [ctx EXCEPT !.sync = FALSE]
    /\ aclient' = aclient

\* __exit__ (56-63): a `with api:` block that was entered is left
Exit(t) ==
    /\ ctx.sync
    /\ LifeOp(t, "exit", FALSE, IF client = "none" THEN "AssertionError" ELSE "ok")
    /\ client' = IF client = "none" THEN client ELSE "closed"
    /\ ctx' = [ctx EXCEPT !.sync = FALSE]
    /\ aclient' = aclient

\* __aenter__ (65-74): `async with api:` begins
AEnter(t) ==
    /\ LifeOp(t, "aenter", TRUE, IF aclient /= "none" THEN "ValueError" ELSE "ok")
    /\ aclient' = IF aclient /= "none" THEN aclient ELSE "open"
    /\ ctx' = IF aclient /= "none" THEN ctx ELSE [ctx EXCEPT !.async = TRUE]
    /\ client' = client

\* __aexit__ (76-83): an `async with api:` block that was entered is left
AExit(t) ==
    /\ ctx.async
    /\ LifeOp(t, "aexit", TRUE, IF aclient = "none" THEN "AssertionError" ELSE "ok")
    /\ aclient' = IF aclient = "none" THEN aclient ELSE "closed"
    /\ ctx' = [ctx EXCEPT !.async = FALSE]
    /\ client' = client

NextLife ==
    \/ \E t \in Tasks : Enter(t)
    \/ \E t \in Tasks : Exit(t)
    \/ \E t \in Tasks : AEnter(t)
    \/ \E t \in Tasks : AExit(t)
    \/ \E t \in Tasks, a \in BOOLEAN : Ping(t, a)
    \/ \E t \in Tasks, a \in BOOLEAN, c \in ThreadCalls : CallMethod(t, a, c)
    \/ \E t \in Tasks : Check(t)
    \/ \E t \in Tasks : ReadNow(t)
    \/ \E t \in Tasks : Cond(t)
    \/ \E t \in Tasks : Send(t)
    \/ \E t \in Tasks : Receive(t)

\* one caller using the client inside and outside of with-blocks
SpecLife == InitLife /\ [][NextLife]_vars

\* ------------------------------------------------------ _create_url alone
\* The inputs _create_url is applied to: the cached token, the clock reading
\* (within the first second, a minute and an hour later), the method name
\* and the variadic arguments.
Sids == {None, Some("s1"), Some("s2")}

Nows == {0, 1, MaxClock, 61 * TicksPerSecond + 1, 3661 * TicksPerSecond}

Methods == {"createsession", "getgods", "getplayer"}

ArgValues == {"a", "b"}

ArgLists == UNION {[1..n -> ArgValues] : n \in 0..MaxArgs}

InitUrl == mode = "url" /\ InitCommon /\ client = "none" /\ aclient = "none"

\* one call self._create_url(now, method_name, *args) on a client whose
\* _session_id is sid (199-209)
BuildUrl ==
    /\ mode = "url"
    /\ \E sid \in Sids, now \in Nows, m \in Methods, args \in ArgLists :
          url' = [sid |-> sid, now |-> now, method |-> m, args |-> args,
                  result |-> IF AssertFails(sid, m) THEN "AssertionError" ELSE "ok",
                  path |-> IF AssertFails(sid, m) THEN <<>>
                           ELSE CreateUrl(sid, now, m, args)]
    /\ UNCHANGED <<ctx, twin, mode, delay, client, aclient, session_id, last, clock,
                   running, task, nops, requests, sched, done>>

\* _create_url applied to any inputs
SpecUrl == InitUrl /\ [][BuildUrl]_vars

\* ================================================================ claims
Reqs == DOMAIN requests
Dones == DOMAIN done
Scheds == DOMAIN sched

\* requests sent by create_session on behalf of a call (the lazy session)
IsLazyCs(i) == requests[i].op = "call_method" /\ requests[i].phase = "cs"

\* requests a call_method / acall_method sent for its own method
IsOwn(i) == requests[i].op = "call_method" /\ requests[i].phase = "own"

\* C1: with a delay configured, each return of _update_last leaves the ledger
\* at least one delay later than the previous return left it, so the Nth
\* scheduled time is at least (N-1) delays after the first.
C1_Spacing ==
    delay /= None =>
        /\ \A i \in Scheds : i > 1 => sched[i].new[1] >= sched[i-1].new[1] + delay[1]
        /\ \A i \in Scheds : sched[i].new[1] >= sched[1].new[1] + (i - 1) * delay[1]

\* a burst: three scheduled calls, the last two made to wait, one of them a
\* coroutine's
C1_Witness ==
    /\ delay /= None
    /\ Len(sched) >= 3
    /\ \E i, j \in Scheds : i < j /\ sched[i].wait /= None /\ sched[j].wait /= None
                            /\ sched[j].async

\* C2 (as amended): _update_last schedules immediately (ledger := now, no
\* wait) exactly when there was no prior call or now - ledger is at least the
\* delay; otherwise the ledger becomes old ledger + delay and the wait is
\* new ledger - now.
C2_UpdateLast ==
    delay /= None =>
        \A i \in Scheds :
            LET r == sched[i]
                imm == r.old = None \/ r.now - r.old[1] >= delay[1]
            IN  /\ imm => r.new = Some(r.now) /\ r.wait = None
                /\ ~imm => /\ r.new = Some(r.old[1] + delay[1])
                           /\ r.wait = Some(r.new[1] - r.now)

\* C2 as stated: immediate exactly when the elapsed time exceeds the delay
C2_Original ==
    delay /= None =>
        \A i \in Scheds :
            LET r == sched[i]
                imm == r.old = None \/ r.now - r.old[1] > delay[1]
            IN  /\ imm => r.new = Some(r.now) /\ r.wait = None
                /\ ~imm => /\ r.new = Some(r.old[1] + delay[1])
                           /\ r.wait = Some(r.new[1] - r.now)

\* both branches taken, the immediate one at the boundary now - ledger = delay
C2_Witness ==
    /\ delay /= None
    /\ \E i \in Scheds : sched[i].old /= None /\ sched[i].now - sched[i].old[1] = delay[1]
                         /\ sched[i].wait = None
    /\ \E i \in Scheds : sched[i].wait /= None

\* C3 (as amended): of the createsession requests that acall_method
\* coroutines of one event loop issue, a later one is issued only after every
\* earlier one has failed; so at most one of them is answered successfully.
C3_OneSession ==
    \A i, j \in Reqs :
        (i < j /\ IsLazyCs(i) /\ IsLazyCs(j) /\ requests[i].async /\ requests[j].async)
            => requests[i].outcome = "err"

\* C3 as stated: at most one createsession request is issued by them in total
C3_Original ==
    Cardinality({i \in Reqs : IsLazyCs(i) /\ requests[i].async}) <= 1

\* two acall_method coroutines are suspended at once, each waiting for the
\* answer to its own request; the first created the session, the second, run
\* while the first was suspended, sent no createsession
C3_Witness ==
    /\ \A t \in Tasks : /\ task[t].op = "call_method" /\ task[t].async
                        /\ task[t].phase = "own" /\ task[t].pc = "resp"
    /\ Cardinality({i \in Reqs : IsLazyCs(i) /\ requests[i].async}) = 1
    /\ \E t \in Tasks : task[t].sent = 1

\* the operations so far were made one after the other by one caller
Sequential ==
    /\ \A t \in Tasks : t > 1 => task[t].pc = "idle"
    /\ \A i \in Dones : done[i].task = 1

AllOk == \A i \in Reqs : requests[i].outcome /= "err"

NoExplicitSession ==
    /\ \A i \in Dones : done[i].op /= "create_session"
    /\ \A t \in Tasks : task[t].op /= "create_session"

\* the operation numbers of the call_method / acall_method started so far
CallOps ==
    {done[i].opid : i \in {k \in Dones : done[k].op = "call_method"}}
    \cup {task[t].opid : t \in {u \in Tasks : task[u].op = "call_method"}}

\* C4: in a sequential run of ping and call_method / acall_method on a fresh
\* client with successful responses, ping sends only its own request and
\* leaves the token alone; the first call creates the session with exactly one
\* createsession request, sent before the method's own request; no later call
\* creates a session again.
C4_LazySession ==
    (Sequential /\ AllOk /\ NoExplicitSession) =>
        /\ \A i \in Reqs : requests[i].op = "ping" =>
                requests[i].path = PingUrl /\ requests[i].phase /= "cs"
        /\ \A i \in Dones : done[i].op = "ping" => done[i].sid1 = done[i].sid0
        /\ Cardinality({i \in Reqs : IsLazyCs(i)}) <= 1
        /\ \A i \in Reqs : IsLazyCs(i) => \A k \in CallOps : requests[i].opid <= k
        /\ \A j \in Reqs : IsOwn(j) => \E i \in Reqs : IsLazyCs(i) /\ i < j
        /\ \A i \in Dones : done[i].op = "call_method" =>
                Cardinality({k \in Reqs : IsLazyCs(k)}) = 1

\* a first call that created the session and then sent its own request, and
\* a later call that sent its own request only
C4_Witness ==
    /\ Sequential /\ AllOk /\ NoExplicitSession
    /\ Len(done) = 2 /\ Len(requests) = 3
    /\ done[1].op = "call_method" /\ done[2].op = "call_method"
    /\ done[1].sent = 2 /\ done[2].sent = 1 /\ done[2].result = "ok"
    /\ requests[1].method = "createsession" /\ requests[2].method = "getgods"

\* the path carries the session token as its fourth segment
HasSessionSegment(r) ==
    /\ r.sid /= None
    /\ Len(r.path) = 5 + Len(r.args)
    /\ r.path[4] = r.sid[1]
    /\ r.path[5] = Timestamp(r.now)

\* the path goes from the signature straight to the timestamp
LacksSessionSegment(r) ==
    /\ Len(r.path) = 4 + Len(r.args)
    /\ r.path[4] = Timestamp(r.now)

\* C5 (as amended): among the paths built by _create_url (createsession and
\* every method called through call_method) the session segment is absent
\* exactly in the createsession requests; the ping path is the bare
\* "pingjson" and carries no session segment either.
C5_SessionSegment ==
    \A i \in Reqs :
        LET r == requests[i]
        IN  IF r.op = "ping" THEN r.path = <<"pingjson">>
            ELSE IF r.method = "createsession" THEN LacksSessionSegment(r)
            ELSE HasSessionSegment(r)

\* C5 as stated: every request path other than createsession's, ping's
\* included, contains the session segment
C5_Original ==
    \A i \in Reqs :
        LET r == requests[i]
        IN  IF r.op /= "ping" /\ r.method = "createsession"
            THEN LacksSessionSegment(r)
            ELSE HasSessionSegment(r)

\* a createsession request sent while a token is cached, after a method
\* request that carried the token
C5_Witness ==
    /\ \E i \in Reqs : requests[i].method = "createsession" /\ requests[i].sid /= None
    /\ \E i \in Reqs : IsOwn(i) /\ requests[i].method = "getgods"

\* C6 (as amended): on a client whose async HTTP client is open and whose
\* synchronous transport is usable, the asynchronous forms produce the same
\* request paths, waits, session token, ledger and results or errors as the
\* synchronous forms do from the same clock readings and server responses.
C6_SameBehaviour ==
    (aclient = "open" /\ client /= "closed") => twin.a = twin.s

\* C6 as stated: on any client
C6_Original == twin.a = twin.s

\* both forms were made to wait, created the session and got a result back
C6_Witness ==
    /\ aclient = "open" /\ client /= "closed"
    /\ Len(twin.a.paths) = 3 /\ twin.a.session_id /= None
    /\ \E i \in DOMAIN twin.a.waits : twin.a.waits[i] /= None
    /\ twin.a.results = <<"ok", "RuntimeError">>

\* C7: with a delay configured, no two concurrent callers are given scheduled
\* times less than one delay apart (no update of the ledger is lost).
C7_NoLostUpdate ==
    delay /= None =>
        \A i, j \in Scheds :
            i /= j => \/ sched[j].wrote[1] >= sched[i].wrote[1] + delay[1]
                      \/ sched[i].wrote[1] >= sched[j].wrote[1] + delay[1]

\* C8: with delay None the ledger is never written and no call is given a wait.
C8_Bypass ==
    delay = None =>
        /\ last = None
        /\ \A i \in Scheds : sched[i].wait = None /\ sched[i].new = None
        /\ \A i \in Reqs : requests[i].wait = None
        /\ \A t \in Tasks : task[t].pc /= "sleep" /\ task[t].wait = None

\* rate limiting is off and three calls went through _update_last
C8_Witness ==
    /\ delay = None
    /\ Len(sched) >= 3
    /\ \E i \in Reqs : IsOwn(i)

\* the implicit createsession request of the call numbered k failed
LazyCsFailed(k) ==
    \E i \in Reqs : IsLazyCs(i) /\ requests[i].opid = k /\ requests[i].outcome = "err"

\* C9: a non-success response ends the operation in the transport error with
\* no retry (one request per step, none after the failed one); when the
\* implicit createsession fails, the method's own request is never sent, the
\* token stays absent, and the next call_method sends createsession again.
C9_ErrorNoRetry ==
    /\ \A i, j \in Reqs :
          (i < j /\ requests[i].opid = requests[j].opid) =>
              /\ requests[i].phase /= requests[j].phase
              /\ requests[i].outcome = "ok"
    /\ \A i \in Reqs : requests[i].outcome = "err" =>
          \E d \in Dones : done[d].opid = requests[i].opid /\ done[d].result = "HTTPStatusError"
    /\ \A d \in Dones : (done[d].op = "call_method" /\ LazyCsFailed(done[d].opid)) =>
          /\ done[d].result = "HTTPStatusError"
          /\ done[d].sent = 1
          /\ done[d].sid1 = None
          /\ \A e \in Dones :
                (done[e].opid = done[d].opid + 1 /\ done[e].op = "call_method") =>
                    \E i \in Reqs : IsLazyCs(i) /\ requests[i].opid = done[e].opid

\* a call whose createsession failed, followed by a call that tried again
C9_Witness ==
    \E d, e \in Dones :
        /\ done[d].op = "call_method" /\ LazyCsFailed(done[d].opid)
        /\ done[e].opid = done[d].opid + 1 /\ done[e].op = "call_method"
        /\ done[e].sent = 2

\* the finished asynchronous operations (aping, acall_method and its wrappers)
AsyncDones == {d \in Dones : done[d].async /\ done[d].op \in {"ping", "call_method"}}

TsAt == IF url.method = "createsession" THEN 4 ELSE 5

\* C11: the path built for a method is method+"json" / devId / signature /
\* [sessionId /] timestamp followed by the arguments in the order given; the
\* signature is the digest of devId + method name + secret + timestamp, in
\* that order, over the very timestamp string of the path's timestamp segment,
\* which is the formatted clock reading.
C11_PathAndSignature ==
    url.result = "ok" =>
        LET p == url.path
        IN  /\ Len(p) = TsAt + Len(url.args)
            /\ p[1] = url.method \o "json"
            /\ p[2] = DevId
            /\ p[3] = Md5(DevId \o url.method \o AuthKey \o p[TsAt])
            /\ url.method /= "createsession" => p[4] = url.sid[1]
            /\ p[TsAt] = Timestamp(url.now)
            /\ \A i \in DOMAIN url.args : p[TsAt + i] = url.args[i]

\* a path with the session segment and two different arguments, built from a
\* clock reading past the first hour
C11_Witness ==
    /\ url.result = "ok" /\ url.method = "getplayer" /\ url.sid = Some("s2")
    /\ url.args = <<"b", "a">>
    /\ url.now = 3661 * TicksPerSecond
    /\ url.path[5] = "20240101010101"

\* C12: nothing guards session creation on the synchronous path: a thread
\* at the test of line 153 is never held back by what the other threads are
\* doing, so two threads can both find the token absent and each send its own
\* createsession request.
C12_Unguarded ==
    \A t \in Tasks : task[t].pc = "check" => ENABLED Check(t)

\* two threads both found the token absent and each has its own createsession
\* request on the wire
C12_Witness ==
    /\ mode = "threads" /\ session_id = None
    /\ \A t \in Tasks : task[t].op = "call_method" /\ task[t].phase = "cs"
                          /\ task[t].pc = "resp"
    /\ Cardinality({i \in Reqs : IsLazyCs(i) /\ requests[i].outcome = "pending"
                                  /\ requests[i].sid = None}) = NTasks

\* the return of _update_last that request i was sent after
SchedOf(i) ==
    {k \in Scheds : sched[k].opid = requests[i].opid /\ sched[k].phase = requests[i].phase}

\* C13: a call given a wait w at clock reading now sends its request at or
\* after now + w, which is the ledger value recorded for it, whether it slept
\* (sync) or was suspended (async); and no operation has returned before the
\* scheduled time of a call it made.
C13_NotBeforeSchedule ==
    /\ \A k \in Scheds : sched[k].wait /= None =>
          /\ sched[k].wait[1] > 0
          /\ sched[k].now + sched[k].wait[1] = sched[k].new[1]
    /\ \A i \in Reqs : requests[i].op /= "ping" =>
          \E k \in SchedOf(i) :
              /\ sched[k].now = requests[i].now /\ sched[k].wait = requests[i].wait
              /\ sched[k].wait /= None => requests[i].at >= sched[k].new[1]
    /\ \A d \in Dones, k \in Scheds :
          (sched[k].opid = done[d].opid /\ sched[k].wait /= None) =>
              clock >= sched[k].new[1]

\* a coroutine was suspended and a synchronous caller slept, each for its
\* wait, before their requests went out; the synchronous call has returned
C13_Witness ==
    /\ \E i \in Reqs : requests[i].via = "async" /\ requests[i].wait /= None
    /\ \E i \in Reqs, d \in Dones :
          /\ requests[i].via = "sync" /\ requests[i].wait /= None
          /\ done[d].opid = requests[i].opid /\ ~done[d].async /\ done[d].result = "ok"

\* C14: no step of an asynchronous call blocks the thread: while an
\* acall_method (its implicit session creation included) is in a rate-limit
\* wait or has an HTTP request outstanding, the thread is not held by it, so
\* the other coroutines of the event loop can be scheduled.
C14_NeverBlocks ==
    \A t \in Tasks :
        (task[t].async /\ task[t].op = "call_method" /\ task[t].pc \in {"sleep", "resp"})
            => running /= t

\* C15: a cached session token is never reset to absent; the token changes
\* only in the step in which a createsession request of create_session
\* (explicit or implicit) is answered successfully; the assertion of
\* _create_url never fails; and every request of call_method / acall_method
\* for a method other than createsession embeds the token cached when its
\* path was built.
C15_TokenInvariant ==
    [][ /\ session_id /= None => session_id' /= None
        /\ session_id' /= session_id =>
              \E t \in Tasks :
                  /\ task[t].pc = "resp" /\ task[t].phase = "cs"
                  /\ requests[task[t].req].outcome = "pending"
                  /\ requests'[task[t].req].outcome = "ok"
        /\ \A d \in DOMAIN done' : done'[d].result /= "AssertionError"
        /\ \A i \in DOMAIN requests' :
              (requests'[i].op = "call_method" /\ requests'[i].method /= "createsession") =>
                  /\ requests'[i].sid /= None
                  /\ requests'[i].path[4] = requests'[i].sid[1]
      ]_vars

\* a method request embedded the first token, and a later create_session
\* replaced that token by another
C15_Witness ==
    /\ Len(requests) = 3
    /\ IsOwn(2) /\ requests[2].method = "getgods" /\ requests[2].path[4] = "s1"
    /\ requests[3].op = "create_session" /\ requests[3].outcome = "ok"
    /\ session_id = Some("s3")

\* C16: the timestamp in a request path, and in its signature, is the clock
\* reading the call gave to the ledger, taken before any wait, not the time
\* of sending: a request given a wait w leaves at least w after the instant
\* of its timestamp, and in a burst of calls made at one clock reading the
\* Nth is scheduled at least (N-1) delays after the instant of its timestamp.
C16_StaleTimestamp ==
    /\ \A i \in Reqs : requests[i].op /= "ping" =>
          LET r == requests[i]
              ts == r.path[Len(r.path) - Len(r.args)]
          IN  /\ ts = Timestamp(r.now)
              /\ r.path[3] = Md5(DevId \o r.method \o AuthKey \o Timestamp(r.now))
              /\ \E k \in SchedOf(i) : sched[k].now = r.now /\ sched[k].wait = r.wait
              /\ r.now <= r.at
              /\ r.wait /= None => r.at - r.now >= r.wait[1]
    /\ delay /= None =>
          \A n \in Scheds :
              (\A k \in 1..n : sched[k].now = sched[1].now) =>
                  sched[n].new[1] - sched[n].now >= (n - 1) * delay[1]

\* a request that waited carries the timestamp of a second that was over
\* when it was sent, in a burst of three calls at one clock reading
C16_Witness ==
    /\ \E i \in Reqs :
          /\ requests[i].op /= "ping" /\ requests[i].wait /= None
          /\ Timestamp(requests[i].now) /= Timestamp(requests[i].at)
    /\ Len(sched) >= 3
    /\ \A k \in 1..3 : sched[k].now = sched[1].now

\* C17: ping and aping are not rate limited: no step of theirs reads or
\* writes the ledger, waits, or changes the session token, whatever the delay;
\* their request is the bare ping path, sent without a wait, so it can leave
\* less than a delay after another request.
C17_PingUnlimited ==
    [][ /\ \A t \in Tasks :
              ((task[t].op = "ping" \/ task'[t].op = "ping") /\ task'[t] /= task[t]) =>
                  /\ last' = last /\ session_id' = session_id
                  /\ sched' = sched /\ clock' = clock
        /\ \A t \in Tasks : task'[t].op = "ping" =>
              task'[t].pc \in {"url", "resp"} /\ task'[t].wait = None
        /\ \A i \in DOMAIN requests' : requests'[i].op = "ping" =>
              requests'[i].wait = None /\ requests'[i].path = PingUrl
      ]_vars

\* with a delay configured, a ping went out in the same tick as the
\* rate-limited request before it, and was answered
C17_Witness ==
    /\ delay /= None
    /\ \E i, j \in Reqs :
          /\ i < j /\ IsOwn(i) /\ requests[j].op = "ping"
          /\ requests[j].at - requests[i].at < delay[1]
          /\ requests[j].outcome = "ok"
    /\ last /= None /\ session_id /= None

\* the returns of _update_last made for the operation numbered k
SchedsOf(k) == {n \in Scheds : sched[n].opid = k}

\* the requests sent by the operation numbered k
ReqsOf(k) == {i \in Reqs : requests[i].opid = k}

\* the finished acall_method (and wrappers) that began with no token cached
FirstACalls == {d \in AsyncDones : done[d].op = "call_method" /\ done[d].sid0 = None}

\* aping on a client with no async HTTP client: NotImplementedError, nothing
\* sent, the token as it was, the ledger not consulted
APingUntouched ==
    \A d \in AsyncDones : done[d].op = "ping" =>
        /\ done[d].result = "NotImplementedError" /\ done[d].sent = 0
        /\ done[d].sid1 = done[d].sid0
        /\ SchedsOf(done[d].opid) = {}

\* the operation numbered k advanced the ledger for createsession and, at
\* least a delay later, a second time for its own method
AdvancedTwice(k) ==
    \E m, n \in SchedsOf(k) :
        /\ SchedsOf(k) = {m, n} /\ m < n
        /\ sched[m].phase = "cs" /\ sched[n].phase = "own"
        /\ sched[m].wrote /= None /\ sched[n].wrote /= None
        /\ sched[n].new[1] >= sched[m].new[1] + delay[1]

\* C18 (as amended): on a client with no async HTTP client, aping raises
\* NotImplementedError with token and ledger untouched and nothing sent;
\* acall_method with no token cached sends exactly one request, a synchronous
\* createsession.  If that fails, its error is raised, the token stays absent
\* and the ledger was consulted once.  If it succeeds, the token is cached,
\* the ledger is consulted a second time for the method itself, and then
\* NotImplementedError is raised; with a delay configured both consultations
\* advance the ledger, with delay None neither does.
C18_SideEffects ==
    aclient = "none" =>
        /\ APingUntouched
        /\ \A d \in FirstACalls :
              LET k == done[d].opid
              IN  /\ done[d].sent = 1
                  /\ \E i \in ReqsOf(k) :
                        /\ ReqsOf(k) = {i}
                        /\ requests[i].method = "createsession" /\ requests[i].via = "sync"
                        /\ IF requests[i].outcome = "err"
                           THEN /\ done[d].result = "HTTPStatusError"
                                /\ done[d].sid1 = None
                                /\ Cardinality(SchedsOf(k)) = 1
                           ELSE /\ done[d].result = "NotImplementedError"
                                /\ done[d].sid1 /= None
                                /\ Cardinality(SchedsOf(k)) = 2
                                /\ delay /= None => AdvancedTwice(k)
                                /\ delay = None => \A n \in SchedsOf(k) : sched[n].wrote = None

\* C18 as stated: every such acall_method caches the token and advances the
\* ledger twice before NotImplementedError
C18_Original ==
    aclient = "none" =>
        /\ APingUntouched
        /\ \A d \in FirstACalls :
              /\ done[d].result = "NotImplementedError"
              /\ done[d].sent = 1
              /\ done[d].sid1 /= None
              /\ delay /= None /\ AdvancedTwice(done[d].opid)

\* an aping that raised at once, and a first acall_method that created the
\* session, advanced the ledger twice and then raised
C18_Witness ==
    /\ aclient = "none" /\ delay /= None
    /\ \E d \in AsyncDones : done[d].op = "ping" /\ done[d].result = "NotImplementedError"
    /\ \E d \in FirstACalls :
          /\ done[d].result = "NotImplementedError" /\ done[d].sid1 /= None
          /\ AdvancedTwice(done[d].opid)
          /\ last = sched[Len(sched)].new

\* the step ends an operation op
Ends(op) == Len(done') = Len(done) + 1 /\ done'[Len(done')].op = op

\* the result of the operation the step ends
Ended == done'[Len(done')].result

\* once a with-block was left, every later enter of the same kind raises
\* ValueError and every later request of that kind is refused by the closed
\* client it was handed to, nothing being sent
AfterExit ==
    \A d, e \in Dones : (d < e /\ done[d].result = "ok") =>
        /\ (done[d].op = "exit" /\ done[e].op = "enter") => done[e].result = "ValueError"
        /\ (done[d].op = "aexit" /\ done[e].op = "aenter") => done[e].result = "ValueError"
        /\ (done[d].op = "exit" /\ done[e].op \in {"ping", "call_method"} /\ ~done[e].async) =>
              done[e].result = "RuntimeError" /\ done[e].sent = 0
        /\ (done[d].op = "aexit" /\ done[e].op = "ping" /\ done[e].async) =>
              done[e].result = "RuntimeError" /\ done[e].sent = 0

\* C19: entering the (async) context manager on a client that already holds
\* an (async) HTTP client raises ValueError and leaves the client unchanged;
\* exiting closes the HTTP client and keeps the reference to it; so after an
\* enter/exit cycle a second enter raises ValueError and every later request
\* is handed to the closed client.
C19_Lifecycle ==
    [][ /\ Ends("enter") =>
              IF client /= "none"
              THEN Ended = "ValueError" /\ client' = client /\ ctx' = ctx
              ELSE Ended = "ok" /\ client' = "open"
        /\ Ends("aenter") =>
              IF aclient /= "none"
              THEN Ended = "ValueError" /\ aclient' = aclient /\ ctx' = ctx
              ELSE Ended = "ok" /\ aclient' = "open"
        /\ Ends("exit") => Ended = "ok" /\ client /= "none" /\ client' = "closed"
        /\ Ends("aexit") => Ended = "ok" /\ aclient /= "none" /\ aclient' = "closed"
        /\ client /= "none" => client' /= "none"
        /\ aclient /= "none" => aclient' /= "none"
        /\ client' /= client => Ends("enter") \/ Ends("exit")
        /\ aclient' /= aclient => Ends("aenter") \/ Ends("aexit")
        /\ \A i \in DOMAIN requests' \ DOMAIN requests :
              /\ requests'[i].via = "sync" => client /= "closed"
              /\ requests'[i].via = "async" => aclient = "open"
        /\ AfterExit'
      ]_vars

\* one enter/exit cycle, then a second enter that raised ValueError and a
\* ping that was handed to the closed client
C19_Witness ==
    /\ Len(done) = 4 /\ requests = <<>>
    /\ done[1].op = "enter" /\ done[1].result = "ok"
    /\ done[2].op = "exit" /\ done[2].result = "ok"
    /\ done[3].op = "enter" /\ done[3].result = "ValueError"
    /\ done[4].op = "ping" /\ ~done[4].async /\ done[4].result = "RuntimeError"
    /\ client = "closed"

====
